---- MODULE Spec2Model ----
(***************************************************************************)
(* Metals state-synchronisation core of the Metal-Track app.               *)
(*                                                                         *)
(*   MetalsContext (src/unnamed/part_000): the reducer-driven store, the    *)
(*       refreshPrices / fetchHistoricalData / getMetalById operations,     *)
(*       and the provider's renders with its mount effect.                  *)
(*   GoldAPIService (src/unnamed/part_006): the price and history caches    *)
(*       in front of the upstream price source.                             *)
(*   SplashScreen (src/MetalApp/src/components/splash/SplashScreen.tsx):   *)
(*       its timers, animation callbacks and app-state handler.             *)
(*                                                                         *)
(* JavaScript runs one task at a time, so every action below is one task   *)
(* together with the microtasks it triggers: the synchronous part of a     *)
(* call up to its first timer wait, or a timer/upstream completion with    *)
(* every promise continuation that becomes runnable because of it.  React  *)
(* 19 (src/README.md:253) commits the dispatches of one task as one store  *)
(* update, so `state' is the snapshot observers read.                      *)
(*                                                                         *)
(* Optional values (price?, error?, lastUpdated) are sequences of length   *)
(* at most one: << >> is undefined/null, <<v>> is the value v.             *)
(*                                                                         *)
(* An instant read from the wall clock (new Date(), Date.now()) is named   *)
(* by the task that reads it: Instant("quote", k) is when the price source *)
(* answered refresh call k, Instant("merge", k) when call k merged its     *)
(* batch, Instant("series", h) when it answered history call h.            *)
(***************************************************************************)
EXTENDS Integers, Sequences, FiniteSets, TLC

(* ------------------------------ bounds --------------------------------- *)
MaxRefresh == 2      \* refreshPrices invocations (the first one is the mount effect)
MaxHist == 2         \* fetchHistoricalData invocations
MaxFail == 1         \* upstream calls that the price source lets fail

(* --------------------------- program constants -------------------------- *)
Timeframes == {"24h", "Week", "Month"}

MetalSymbols == {"XAU", "XAG", "XPT", "XPD"}

\* DEFAULT_METALS (constants/metals): id, name, symbol, loading (icon omitted:
\* a display glyph no operation reads).
DEFAULT_METALS ==
  << [id |-> "gold",      name |-> "Gold",      symbol |-> "XAU", loading |-> FALSE],
     [id |-> "silver",    name |-> "Silver",    symbol |-> "XAG", loading |-> FALSE],
     [id |-> "platinum",  name |-> "Platinum",  symbol |-> "XPT", loading |-> FALSE],
     [id |-> "palladium", name |-> "Palladium", symbol |-> "XPD", loading |-> FALSE] >>

NumMetals == Len(DEFAULT_METALS)

MetalIdx == 1..NumMetals

\* MOCK_PRICES.basePrice, in hundredths of a rupee.
MOCK_PRICES ==
  [s \in MetalSymbols |->
     CASE s = "XAU" -> 585075
       [] s = "XAG" -> 7245
       [] s = "XPT" -> 265034
       [] s = "XPD" -> 342089]

\* Error messages the price source may fail with; "" is new Error("").
ErrorMessages == {"timeout", ""}

\* The symbols for which the price source may fail (it answers the others).
FailingSymbols == {"XPD"}

\* Ids handed to the operations by callers.
LookupIds == {"gold", "palladium", "nonexistent"}

HistoryIds == {"gold", "nonexistent"}

HistoryWindows == {"Week", "24h"}

\* The item and the windows of the chart screens.
SeriesIds == {"gold"}

SeriesWindows == Timeframes

(* ------------------------------- state ---------------------------------- *)
VARIABLES
  state,            \* AppState held by useReducer
  priceCache,       \* GoldAPIService.priceCache: symbol -> optional MetalPrice
  historicalCache,  \* GoldAPIService.historicalCache: <<symbol, timeframe>> -> optional series
  refresh,          \* per refreshPrices invocation: its promise and per-item results
  hist,             \* per fetchHistoricalData invocation: its promise and arguments
  resolved,         \* the results merged by the refreshPrices call that resolved in the
                    \* latest step, << >> when the latest step resolved none
  failures,         \* upstream failures so far
  lastLookup,       \* the getMetalById call made in the latest step and what it
                    \* returned, << >> when the latest step made none
  everSucceeded,    \* items for which a SET_PRICE_SUCCESS has been applied
  provider,         \* MetalsProvider as React holds it: what its last render saw
                    \* and the dependencies its effect last ran with
  dispatched,       \* the action handed to metalsReducer in the latest step on its
                    \* own and the state it was applied to, << >> otherwise
  splash            \* the SplashScreen instance, << >> before React makes it:
                    \* its refs, its timers, the animation that runs and the
                    \* calls it has made

vars == << state, priceCache, historicalCache, refresh, hist, resolved,
           failures, lastLookup, everSucceeded, provider, dispatched, splash >>

Instant(what, call) == <<what, call>>

(* ------------------------------ the store ------------------------------- *)
initialState ==
  [ metals |-> [i \in MetalIdx |->
       [ id |-> DEFAULT_METALS[i].id,
         name |-> DEFAULT_METALS[i].name,
         symbol |-> DEFAULT_METALS[i].symbol,
         loading |-> TRUE,
         price |-> << >>,
         error |-> << >>,
         historicalData |-> << >> ]],
    lastUpdated |-> << >>,
    refreshing |-> FALSE ]

\* Each item-level case maps over state.metals and replaces the item whose
\* id matches, spreading its other fields.
SetLoading(st, p) ==
  [st EXCEPT !.metals =
     [i \in DOMAIN st.metals |->
        IF st.metals[i].id = p.metalId
        THEN [st.metals[i] EXCEPT !.loading = p.loading]
        ELSE st.metals[i]]]

\* A SET_PRICE_SUCCESS that forgets lastUpdated.
SetPriceSuccessNoStamp(st, p, date) ==
  [st EXCEPT !.metals =
     [i \in DOMAIN st.metals |->
        IF st.metals[i].id = p.metalId
        THEN [st.metals[i] EXCEPT !.price = <<p.price>>,
                                  !.loading = FALSE,
                                  !.error = << >>]
        ELSE st.metals[i]]]

\* A SET_PRICE_SUCCESS that leaves the item's error in place.
SetPriceSuccessKeepError(st, p, date) ==
  [st EXCEPT !.metals =
     [i \in DOMAIN st.metals |->
        IF st.metals[i].id = p.metalId
        THEN [st.metals[i] EXCEPT !.price = <<p.price>>, !.loading = FALSE]
        ELSE st.metals[i]],
             !.lastUpdated = <<date>>]

SetPriceSuccess(st, p, date) ==
  [st EXCEPT !.metals =
     [i \in DOMAIN st.metals |->
        IF st.metals[i].id = p.metalId
        THEN [st.metals[i] EXCEPT !.price = <<p.price>>,
                                  !.loading = FALSE,
                                  !.error = << >>]
        ELSE st.metals[i]],
             !.lastUpdated = <<date>>]

\* A SET_ERROR that records the error and leaves loading as it was.
SetErrorKeepLoading(st, p) ==
  [st EXCEPT !.metals =
     [i \in DOMAIN st.metals |->
        IF st.metals[i].id = p.metalId
        THEN [st.metals[i] EXCEPT !.error = <<p.error>>]
        ELSE st.metals[i]]]

\* A SET_ERROR that also forgets the last-known price.
SetErrorBlanking(st, p) ==
  [st EXCEPT !.metals =
     [i \in DOMAIN st.metals |->
        IF st.metals[i].id = p.metalId
        THEN [st.metals[i] EXCEPT !.error = <<p.error>>,
                                  !.loading = FALSE,
                                  !.price = << >>]
        ELSE st.metals[i]]]

SetError(st, p) ==
  [st EXCEPT !.metals =
     [i \in DOMAIN st.metals |->
        IF st.metals[i].id = p.metalId
        THEN [st.metals[i] EXCEPT !.error = <<p.error>>, !.loading = FALSE]
        ELSE st.metals[i]]]

\* A SET_HISTORICAL_DATA that forgets to spread the series already held.
SetHistoricalDataReplacing(st, p) ==
  [st EXCEPT !.metals =
     [i \in DOMAIN st.metals |->
        IF st.metals[i].id = p.metalId
        THEN [st.metals[i] EXCEPT !.historicalData = (p.timeframe :> p.data)]
        ELSE st.metals[i]]]

\* { ...m.historicalData, [timeframe]: data }: historicalData is a function
\* from the populated timeframes to their series.
SetHistoricalData(st, p) ==
  [st EXCEPT !.metals =
     [i \in DOMAIN st.metals |->
        IF st.metals[i].id = p.metalId
        THEN [st.metals[i] EXCEPT !.historicalData = (p.timeframe :> p.data) @@ @]
        ELSE st.metals[i]]]

SetRefreshing(st, p) == [st EXCEPT !.refreshing = p]

\* metalsReducer(state, action); date is what new Date() reads while it runs.
metalsReducer(st, action, date) ==
  CASE action.type = "SET_LOADING"         -> SetLoading(st, action.payload)
    [] action.type = "SET_PRICE_SUCCESS"   -> SetPriceSuccess(st, action.payload, date)
    [] action.type = "SET_ERROR"           -> SetError(st, action.payload)
    [] action.type = "SET_HISTORICAL_DATA" -> SetHistoricalData(st, action.payload)
    [] action.type = "SET_REFRESHING"      -> SetRefreshing(st, action.payload)
    [] OTHER                               -> st

(* ----------------------------- GoldAPIService --------------------------- *)
\* A price source that answers every symbol with the gold row.
MockQuoteGoldRow(symbol, t) ==
  [metal |-> "XAU", currency |-> "INR", price |-> MOCK_PRICES["XAU"], timestamp |-> t]

\* The MetalPrice built on a cache miss; timestamp is new Date() at that instant.
\* The remaining fields (prev_close_price, open_price, ..., chp) are fixed
\* functions of the symbol's MOCK_PRICES row.
MockQuote(symbol, t) ==
  [metal |-> symbol, currency |-> "INR", price |-> MOCK_PRICES[symbol], timestamp |-> t]

\* A cache test that never finds the stored quote.
PriceCacheHasNever(cache, symbol) == FALSE

\* this.priceCache.has(symbol)
PriceCacheHas(cache, symbol) == cache[symbol] # << >>

\* A cache write that keeps the entry already there (first writer wins).
PriceCacheSetIfAbsent(cache, symbol, price) ==
  IF cache[symbol] # << >> THEN cache ELSE [cache EXCEPT ![symbol] = <<price>>]

\* this.priceCache.set(symbol, price)
PriceCacheSet(cache, symbol, price) == [cache EXCEPT ![symbol] = <<price>>]

\* cacheKey = `${symbol}-${timeframe}`
CacheKey(symbol, timeframe) == <<symbol, timeframe>>

\* this.historicalCache.has(cacheKey)
HistoricalCacheHas(cache, symbol, timeframe) == cache[CacheKey(symbol, timeframe)] # << >>

\* this.historicalCache.set(cacheKey, historicalData)
HistoricalCacheSet(cache, symbol, timeframe, data) ==
  [cache EXCEPT ![CacheKey(symbol, timeframe)] = <<data>>]

\* dataPoints chosen by the switch on timeframe.
DataPoints(timeframe) ==
  CASE timeframe = "24h"   -> 24
    [] timeframe = "Week"  -> 7
    [] timeframe = "Month" -> 30
    [] OTHER               -> 30

\* The series generated on a cache miss: dataPoints points whose dates are
\* anchored at Date.now() = t and whose prices follow currentPriceData.
MockSeries(symbol, timeframe, currentPriceData, t) ==
  [symbol |-> symbol, timeframe |-> timeframe, length |-> DataPoints(timeframe),
   endPrice |-> currentPriceData.price, anchor |-> t]

\* timeInterval chosen by the same switch, in seconds (the code counts
\* milliseconds, every value a whole number of seconds).
TimeInterval(timeframe) ==
  CASE timeframe = "24h"   -> 60 * 60
    [] timeframe = "Week"  -> 24 * 60 * 60
    [] timeframe = "Month" -> 24 * 60 * 60
    [] OTHER               -> 24 * 60 * 60

\* Point dates counted forward from Date.now(): the newest point first.
DateOffsetNewestFirst(dataPoints, timeInterval, i) == 0 - (i * timeInterval)

\* Date.now() - (dataPoints - 1 - i) * timeInterval, as seconds relative to
\* Date.now(); i is the array index, from 0.
DateOffset(dataPoints, timeInterval, i) == 0 - ((dataPoints - 1 - i) * timeInterval)

\* The array Array.from({length: dataPoints}, ...) builds, which a series
\* record stands for: point i carries the date of its offset from the
\* instant the series was generated (toISOString writes that instant out).
\* The point's price, a fixed function of i, the symbol and the current
\* quote, is left out.
SeriesPoints(series) ==
  [j \in 1..series.length |->
     [date |-> [at |-> series.anchor,
                offset |-> DateOffset(series.length, TimeInterval(series.timeframe), j - 1)]]]

(* ------------------------------ refreshPrices --------------------------- *)
\* What the price source throws here: an Error with one of the messages.
Thrown == [kind : {"Error"}, message : ErrorMessages]

PendingResult(metal) ==
  [status |-> "pending", metalId |-> metal.id, success |-> FALSE,
   price |-> << >>, error |-> << >>]

\* try { price = await getMetalPrice(...); return {metalId, price, success: true} }
ItemSuccess(metal, price) ==
  [status |-> "fulfilled", metalId |-> metal.id, success |-> TRUE,
   price |-> <<price>>, error |-> << >>]

\* A catch block that swallows what was thrown.
ItemFailureSilent(metal, thrown) ==
  [status |-> "fulfilled", metalId |-> metal.id, success |-> FALSE,
   price |-> << >>, error |-> << >>]

\* catch (error) { return {metalId, error: error.message, success: false} }
\* Reading .message of a thrown null would throw inside the catch and reject
\* the item's promise.
ItemFailure(metal, thrown) ==
  IF thrown.kind = "null"
  THEN [status |-> "rejected", metalId |-> metal.id, success |-> FALSE,
        price |-> << >>, error |-> << >>]
  ELSE [status |-> "fulfilled", metalId |-> metal.id, success |-> FALSE,
        price |-> << >>, error |-> <<thrown.message>>]

\* JavaScript truthiness of an optional string and of an optional object.
TruthyString(opt) == opt # << >> /\ opt[1] # ""

TruthyObject(opt) == opt # << >>

\* The body of results.forEach for one result.
DispatchResult(st, result, date) ==
  IF result.status = "fulfilled"
  THEN IF result.success /\ TruthyObject(result.price)
       THEN metalsReducer(st, [type |-> "SET_PRICE_SUCCESS",
                               payload |-> [metalId |-> result.metalId,
                                            price |-> result.price[1]]], date)
       ELSE IF ~result.success /\ TruthyString(result.error)
            THEN metalsReducer(st, [type |-> "SET_ERROR",
                                    payload |-> [metalId |-> result.metalId,
                                                 error |-> result.error[1]]], date)
            ELSE st
  ELSE st

\* A merge loop that gives up at the first item that did not succeed.
RECURSIVE FoldResultsUntilFailure(_, _, _, _)
FoldResultsUntilFailure(st, results, i, date) ==
  IF i > Len(results) \/ ~results[i].success THEN st
  ELSE FoldResultsUntilFailure(DispatchResult(st, results[i], date), results, i + 1, date)

\* results.forEach(...) from index i on, in array order.
RECURSIVE FoldResults(_, _, _, _)
FoldResults(st, results, i, date) ==
  IF i > Len(results) THEN st
  ELSE FoldResults(DispatchResult(st, results[i], date), results, i + 1, date)

\* A per-item task that dispatches its own result as soon as it settles.
ItemSettledEager(st, result, date) == DispatchResult(st, result, date)

\* The per-item task only returns its result: it dispatches nothing.
ItemSettled(st, result, date) == st

\* A join that lets go as soon as one item has settled (Promise.any/race
\* in place of Promise.allSettled).
AnySettled(results) == \E i \in DOMAIN results : results[i].status # "pending"

AllSettled(results) == \A i \in DOMAIN results : results[i].status # "pending"

\* A continuation that merges the results and leaves refreshing on.
AfterAllSettledStillRefreshing(st, results, date) ==
  FoldResults(st, results, 1, date)

\* The continuation of `await Promise.allSettled(pricePromises)': it runs in
\* the task in which the last item settles.
AfterAllSettled(st, results, date) ==
  metalsReducer(FoldResults(st, results, 1, date),
                [type |-> "SET_REFRESHING", payload |-> FALSE], date)

Succeeded(results) ==
  {results[i].metalId : i \in {j \in DOMAIN results :
       results[j].status = "fulfilled" /\ results[j].success /\ TruthyObject(results[j].price)}}

\* The per-item tasks whose getMetalPrice returned without waiting (cache
\* hits), in array order.
RECURSIVE SettleAll(_, _, _, _)
SettleAll(st, results, i, date) ==
  IF i > Len(results) THEN st
  ELSE SettleAll(IF results[i].status = "pending" THEN st
                 ELSE ItemSettled(st, results[i], date),
                 results, i + 1, date)

\* refreshPrices up to `await Promise.allSettled': SET_REFRESHING true, then
\* one getMetalPrice per metal, which returns the cached price or goes upstream.
StartResults(cache) ==
  [i \in MetalIdx |->
     IF PriceCacheHas(cache, DEFAULT_METALS[i].symbol)
     THEN ItemSuccess(DEFAULT_METALS[i], cache[DEFAULT_METALS[i].symbol][1])
     ELSE PendingResult(DEFAULT_METALS[i])]

NoResults == [i \in MetalIdx |-> PendingResult(DEFAULT_METALS[i])]

\* The state of refreshPrices call k once `results' are known so far: when
\* all have settled the call merges them and its promise fulfils.
RefreshStep(k, st, results) ==
  IF AllSettled(results)
  THEN /\ state' = AfterAllSettled(st, results, Instant("merge", k))
       /\ refresh' = [refresh EXCEPT ![k] = [pc |-> "fulfilled", results |-> NoResults]]
       /\ resolved' = <<[call |-> k, results |-> results]>>
       /\ everSucceeded' = everSucceeded \cup Succeeded(results)
  ELSE /\ state' = st
       /\ refresh' = [refresh EXCEPT ![k] = [pc |-> "waiting", results |-> results]]
       /\ resolved' = << >>
       /\ UNCHANGED everSucceeded

\* One invocation of the refreshPrices callback, whoever makes it.
refreshPricesCall(k) ==
  /\ refresh[k].pc = "idle"
  /\ k > 1 => refresh[k - 1].pc # "idle"
  /\ LET results == StartResults(priceCache)
         st1 == metalsReducer(state, [type |-> "SET_REFRESHING", payload |-> TRUE],
                              Instant("start", k))
     IN RefreshStep(k, SettleAll(st1, results, 1, Instant("start", k)), results)
  /\ lastLookup' = << >>
  /\ UNCHANGED << priceCache, historicalCache, hist, failures, dispatched, splash >>

\* refreshPrices() called through the context value: by a screen's refresh
\* handler, or by the provider's effect where the provider is not told apart.
refreshPrices(k) == refreshPricesCall(k) /\ UNCHANGED provider

\* The upstream quote call of refresh k for metal i completes with a price:
\* getMetalPrice builds the MetalPrice, caches it and returns it.
QuoteSucceeds(k, i) ==
  /\ refresh[k].pc = "waiting"
  /\ refresh[k].results[i].status = "pending"
  /\ LET metal == DEFAULT_METALS[i]
         price == MockQuote(metal.symbol, Instant("quote", k))
         results == [refresh[k].results EXCEPT ![i] = ItemSuccess(metal, price)]
     IN /\ priceCache' = PriceCacheSet(priceCache, metal.symbol, price)
        /\ RefreshStep(k, ItemSettled(state, results[i], Instant("quote", k)), results)
  /\ lastLookup' = << >>
  /\ UNCHANGED << historicalCache, hist, failures, provider, dispatched, splash >>

\* The upstream quote call of refresh k for metal i fails: nothing is cached.
QuoteFails(k, i, thrown) ==
  /\ refresh[k].pc = "waiting"
  /\ refresh[k].results[i].status = "pending"
  /\ DEFAULT_METALS[i].symbol \in FailingSymbols
  /\ failures < MaxFail
  /\ failures' = failures + 1
  /\ LET metal == DEFAULT_METALS[i]
         results == [refresh[k].results EXCEPT ![i] = ItemFailure(metal, thrown)]
     IN RefreshStep(k, ItemSettled(state, results[i], Instant("quote", k)), results)
  /\ lastLookup' = << >>
  /\ UNCHANGED << priceCache, historicalCache, hist, provider, dispatched, splash >>

\* Quote requests are answered in request order: getMetalPrice waits the
\* same 800 ms on every miss, so its timers fire in the order they were set.
OldestPending(k, i) ==
  \A k2 \in 1..MaxRefresh, i2 \in MetalIdx :
     (refresh[k2].pc = "waiting" /\ refresh[k2].results[i2].status = "pending")
        => (k < k2 \/ (k = k2 /\ i <= i2))

QuoteSucceedsInOrder(k, i) == OldestPending(k, i) /\ QuoteSucceeds(k, i)

(* --------------------------- fetchHistoricalData ------------------------ *)
\* Array.prototype.find: the first metal with the id, or undefined.
Find(metals, id) ==
  LET hits == {i \in DOMAIN metals : metals[i].id = id}
  IN IF hits = {} THEN << >>
     ELSE <<metals[CHOOSE i \in hits : \A j \in hits : i <= j]>>

\* A cache test that never finds the stored series.
HasSeriesNever(metal, timeframe) == FALSE

\* (metal.historicalData?.[timeframe]?.length ?? 0) > 0
HasSeries(metal, timeframe) ==
  /\ timeframe \in DOMAIN metal.historicalData
  /\ metal.historicalData[timeframe].length > 0

\* A guard that forgets the `if (!metal.price) return'.
HistoryGuardNoPriceCheck(found, timeframe) ==
  IF found = << >> \/ HasSeries(found[1], timeframe) THEN "return" ELSE "fetch"

\* The two early returns of fetchHistoricalData.
HistoryGuard(found, timeframe) ==
  IF found = << >> \/ HasSeries(found[1], timeframe) THEN "return"
  ELSE IF found[1].price = << >> THEN "return"
  ELSE "fetch"

\* A catch block that rethrows.
HistoryCatchRethrow == "rejected"

\* catch (error) { console.error(...) }: the promise still fulfils.
HistoryCatch == "fulfilled"

IdleHist == [pc |-> "idle", metalId |-> "", timeframe |-> "", symbol |-> "",
             price |-> << >>, via |-> ""]

fetchHistoricalData(h, metalId, timeframe) ==
  /\ hist[h].pc = "idle"
  /\ h > 1 => hist[h - 1].pc # "idle"
  /\ LET found == Find(state.metals, metalId)
         call == [IdleHist EXCEPT !.metalId = metalId, !.timeframe = timeframe]
     IN IF HistoryGuard(found, timeframe) = "return"
        THEN /\ hist' = [hist EXCEPT ![h] = [call EXCEPT !.pc = "fulfilled", !.via = "guard"]]
             /\ UNCHANGED state
        ELSE LET metal == found[1] IN
             IF HistoricalCacheHas(historicalCache, metal.symbol, timeframe)
             THEN /\ state' = metalsReducer(state,
                       [type |-> "SET_HISTORICAL_DATA",
                        payload |-> [metalId |-> metalId, timeframe |-> timeframe,
                                     data |-> historicalCache[CacheKey(metal.symbol, timeframe)][1]]],
                       Instant("series", h))
                  /\ hist' = [hist EXCEPT ![h] =
                       [call EXCEPT !.pc = "fulfilled", !.via = "cache",
                                    !.symbol = metal.symbol, !.price = metal.price]]
             ELSE /\ hist' = [hist EXCEPT ![h] =
                       [call EXCEPT !.pc = "waiting", !.via = "upstream",
                                    !.symbol = metal.symbol, !.price = metal.price]]
                  /\ UNCHANGED state
  /\ resolved' = << >>
  /\ lastLookup' = << >>
  /\ UNCHANGED << priceCache, historicalCache, refresh, failures, everSucceeded,
                  provider, dispatched, splash >>

\* The upstream history call of invocation h completes: getHistoricalData
\* builds and caches the series, fetchHistoricalData dispatches it.
HistorySucceeds(h) ==
  /\ hist[h].pc = "waiting"
  /\ LET c == hist[h]
         data == MockSeries(c.symbol, c.timeframe, c.price[1], Instant("series", h))
     IN /\ historicalCache' = HistoricalCacheSet(historicalCache, c.symbol, c.timeframe, data)
        /\ state' = metalsReducer(state,
                       [type |-> "SET_HISTORICAL_DATA",
                        payload |-> [metalId |-> c.metalId, timeframe |-> c.timeframe,
                                     data |-> data]], Instant("series", h))
        /\ hist' = [hist EXCEPT ![h].pc = "fulfilled"]
  /\ resolved' = << >>
  /\ lastLookup' = << >>
  /\ UNCHANGED << priceCache, refresh, failures, everSucceeded, provider, dispatched, splash >>

\* The upstream history call of invocation h fails: nothing is cached and
\* the catch block only logs.
HistoryFails(h) ==
  /\ hist[h].pc = "waiting"
  /\ failures < MaxFail
  /\ failures' = failures + 1
  /\ hist' = [hist EXCEPT ![h].pc = HistoryCatch, ![h].via = "failed"]
  /\ resolved' = << >>
  /\ lastLookup' = << >>
  /\ UNCHANGED << state, priceCache, historicalCache, refresh, everSucceeded,
                  provider, dispatched, splash >>

(* ------------------------------ getMetalById ---------------------------- *)
\* A lookup that falls back to the first metal when the id is unknown.
getMetalByIdFallback(st, id) ==
  IF Find(st.metals, id) = << >> THEN <<st.metals[1]>> ELSE Find(st.metals, id)

getMetalById(st, id) == Find(st.metals, id)

Lookup(id) ==
  /\ lastLookup' = <<[id |-> id, result |-> getMetalById(state, id)]>>
  /\ resolved' = << >>
  /\ UNCHANGED << state, priceCache, historicalCache, refresh, hist, failures,
                  everSucceeded, provider, dispatched, splash >>

(* ----------------------------- MetalsProvider --------------------------- *)
\* A refreshPrices memoised on state.metals, as fetchHistoricalData is.
RefreshPricesDepsOnMetals(st) == <<st.metals>>

\* useCallback(async () => {...}, []): the dependency list of refreshPrices.
\* useCallback returns the function of the previous render while the list is
\* unchanged, so the list under which a function was made identifies it.
RefreshPricesDeps(st) == << >>

\* useEffect(..., deps): the effect runs after the first render and after
\* every render whose deps differ from those of the render before.
EffectFires(prev, deps) == prev = << >> \/ prev[1] # deps

Unmounted == [rendered |-> << >>, effectDeps |-> << >>, effectRuns |-> 0, renders |-> 0]

\* React renders MetalsProvider: at mount, and again after the store has
\* changed.  The render reads state, memoises refreshPrices and, once
\* committed, runs the effect `refreshPrices()' when its deps [refreshPrices]
\* have changed.
Render ==
  /\ provider.rendered # <<state>>
  /\ LET fn == RefreshPricesDeps(state)
         seen == [provider EXCEPT !.rendered = <<state>>, !.effectDeps = <<fn>>,
                                  !.renders = @ + 1]
     IN IF EffectFires(provider.effectDeps, fn)
        THEN /\ provider' = [seen EXCEPT !.effectRuns = @ + 1]
             /\ \E k \in 1..MaxRefresh : refreshPricesCall(k)
        ELSE /\ provider' = seen
             /\ resolved' = << >>
             /\ lastLookup' = << >>
             /\ UNCHANGED << state, priceCache, historicalCache, refresh, hist,
                             failures, everSucceeded, dispatched, splash >>

\* A screen calls refreshPrices() from the context value: the screens exist
\* once the provider has rendered.
CallerRefresh(k) == provider.rendered # << >> /\ refreshPrices(k)

(* ------------------------------- dispatch ------------------------------- *)
\* The store states the reducer is handed: per item, still loading as
\* created, or merged with a quote, an error, or an error beside an earlier
\* quote; lastUpdated is set once some quote has been merged.
ItemStates(i) ==
  LET created == initialState.metals[i]
      quote == <<MockQuote(DEFAULT_METALS[i].symbol, Instant("quote", 1))>>
  IN { created,
       [created EXCEPT !.loading = FALSE, !.price = quote],
       [created EXCEPT !.loading = FALSE, !.error = <<"timeout">>],
       [created EXCEPT !.loading = FALSE, !.price = quote, !.error = <<"timeout">>] }

StoreStates ==
  { [metals |-> m,
     lastUpdated |-> IF \E i \in MetalIdx : m[i].price # << >>
                     THEN <<Instant("merge", 1)>> ELSE << >>,
     refreshing |-> r] :
       m \in {f \in [MetalIdx -> UNION {ItemStates(i) : i \in MetalIdx}] :
                 \A i \in MetalIdx : f[i] \in ItemStates(i)},
       r \in BOOLEAN }

\* The actions the provider dispatches: from refreshPrices a quote the
\* service returned for the metal, the message of what it threw, and the
\* refreshing flag; from fetchHistoricalData a series for a window of gold.
DispatchedActions ==
  {[type |-> "SET_REFRESHING", payload |-> b] : b \in BOOLEAN}
  \cup
  {[type |-> "SET_HISTORICAL_DATA",
    payload |-> [metalId |-> "gold", timeframe |-> tf,
                 data |-> MockSeries("XAU", tf, MockQuote("XAU", Instant("quote", 1)),
                                     Instant("series", 1))]] :
      tf \in HistoryWindows}
  \cup
  {[type |-> "SET_PRICE_SUCCESS",
    payload |-> [metalId |-> DEFAULT_METALS[i].id,
                 price |-> MockQuote(DEFAULT_METALS[i].symbol, Instant("quote", 2))]] :
      i \in MetalIdx}
  \cup
  {[type |-> "SET_ERROR",
    payload |-> [metalId |-> DEFAULT_METALS[i].id, error |-> "timeout"]] :
      i \in MetalIdx}

\* dispatch(action): the reducer applied to the current state.  A series is
\* dispatched only for an item that has a quote (fetchHistoricalData returns
\* before that otherwise).
Dispatch(action) ==
  /\ action.type = "SET_HISTORICAL_DATA" =>
        Find(state.metals, action.payload.metalId)[1].price # << >>
  /\ state' = metalsReducer(state, action, Instant("merge", 2))
  /\ dispatched' = <<[action |-> action, before |-> state]>>
  /\ UNCHANGED << priceCache, historicalCache, refresh, hist, resolved, failures,
                  lastLookup, everSucceeded, provider, splash >>

(* ------------------------------ SplashScreen ---------------------------- *)
\* AppState.currentState and the values a 'change' event carries.
AppStateStatuses == {"active", "background", "inactive"}

\* The component as its first render makes it: the refs as useRef
\* initialises them, no timer made, no animation started, nothing called.  A timer
\* made by setTimeout is "unset" before it is made, then "pending", then
\* "fired", or "cleared" when clearTimeout cancelled it first.
BeforeMount ==
  [ phase |-> "before",              \* "before", "mounted", "unmounted"
    hasCompleted |-> FALSE,          \* hasCompletedRef
    isInitialLoad |-> TRUE,          \* isInitialLoadRef
    appState |-> "active",           \* appStateRef
    maxTimeout |-> "unset",          \* the timer maxTimeoutRef holds
    titleTimeout |-> "unset",        \* the title delay timer
    completionTimeout |-> "unset",   \* the timer scheduleCompletion makes
    animationTimeoutRef |-> "null",  \* which of the two the ref holds
    initialLoadTimeout |-> "unset",
    fallbackTimeout |-> "unset",     \* the 500 ms timer of startAnimations' catch
    animation |-> "none",            \* the animation whose start callback is due
    completions |-> 0,               \* calls of onAnimationComplete
    latest |-> "none",               \* the handler that ran in the latest step
    invoker |-> "none" ]             \* who called completeTransition in the latest step

\* clearTimeout(id): a waiting timer is cancelled, any other is left alone.
ClearTimeout(timer) == IF timer = "pending" THEN "cleared" ELSE timer

\* if (animationTimeoutRef.current) clearTimeout(animationTimeoutRef.current)
ClearAnimationTimeout(s) ==
  CASE s.animationTimeoutRef = "title" ->
         [s EXCEPT !.titleTimeout = ClearTimeout(@)]
    [] s.animationTimeoutRef = "completion" ->
         [s EXCEPT !.completionTimeout = ClearTimeout(@)]
    [] OTHER -> s

\* completeTransition without its hasCompletedRef test.
completeTransitionUnguarded(s, by) ==
  LET cleared == ClearAnimationTimeout([s EXCEPT !.maxTimeout = ClearTimeout(@)])
  IN [cleared EXCEPT !.hasCompleted = TRUE,
                     !.completions = @ + 1,
                     !.invoker = by]

\* completeTransition, called by `by': returns at once when it has run
\* before; otherwise sets the flag, clears both timers and calls
\* onAnimationComplete.
completeTransition(s, by) ==
  IF s.hasCompleted THEN [s EXCEPT !.invoker = by]
  ELSE LET cleared == ClearAnimationTimeout([s EXCEPT !.maxTimeout = ClearTimeout(@)])
       IN [cleared EXCEPT !.hasCompleted = TRUE,
                          !.completions = @ + 1,
                          !.invoker = by]

\* scheduleCompletion: a new timer that will run fadeOutAndComplete.
scheduleCompletion(s) ==
  [s EXCEPT !.completionTimeout = "pending", !.animationTimeoutRef = "completion"]

\* startAnimations: the parallel fade-in under reduced motion, the logo
\* fade-in otherwise; when Animated throws, a 500 ms timer in their place.
startAnimations(s, isReduceMotionEnabled, throws) ==
  IF throws THEN [s EXCEPT !.fallbackTimeout = "pending"]
  ELSE [s EXCEPT !.animation = IF isReduceMotionEnabled THEN "parallel" ELSE "logo"]

\* fadeOutAndComplete: nothing once completed; otherwise the fade-out
\* starts, or completeTransition runs at once when Animated throws.
fadeOutAndComplete(s, throws) ==
  IF s.hasCompleted THEN s
  ELSE IF throws THEN completeTransition(s, "fadeOutAndComplete")
  ELSE [s EXCEPT !.animation = "fadeOut"]

\* An event of the splash screen leaves the store and the service alone.
SplashStep(s) ==
  /\ splash' = <<s>>
  /\ UNCHANGED << state, priceCache, historicalCache, refresh, hist, resolved,
                  failures, lastLookup, everSucceeded, provider, dispatched >>

\* The record as handler `name' finds it when it starts to run.
Handling(s, name) == [s EXCEPT !.invoker = "none", !.latest = name]

\* React mounts the component and runs its effect: the app-state listener,
\* the maximum-display timer, the animations and the initial-load timer.
Mount(isReduceMotionEnabled, throws) ==
  /\ splash = << >>
  /\ SplashStep(startAnimations([Handling(BeforeMount, "mount")
                                   EXCEPT !.phase = "mounted",
                                          !.maxTimeout = "pending",
                                          !.initialLoadTimeout = "pending"],
                                isReduceMotionEnabled, throws))

\* React unmounts the component: the effect's cleanup clears the timers the
\* refs hold and the initial-load timer and removes the listener.
Unmount ==
  /\ splash # << >>
  /\ splash[1].phase = "mounted"
  /\ SplashStep(ClearAnimationTimeout(
                  [Handling(splash[1], "unmount")
                     EXCEPT !.phase = "unmounted",
                            !.maxTimeout = ClearTimeout(@),
                            !.initialLoadTimeout = ClearTimeout(@)]))

\* The maximum-display timer runs.
MaxTimeoutFires ==
  /\ splash # << >>
  /\ splash[1].maxTimeout = "pending"
  /\ LET s == [Handling(splash[1], "maxTimeout") EXCEPT !.maxTimeout = "fired"]
     IN SplashStep(IF ~s.hasCompleted THEN completeTransition(s, "maxTimeout") ELSE s)

\* The initial-load timer runs.
InitialLoadTimeoutFires ==
  /\ splash # << >>
  /\ splash[1].initialLoadTimeout = "pending"
  /\ SplashStep([Handling(splash[1], "initialLoadTimeout")
                   EXCEPT !.initialLoadTimeout = "fired", !.isInitialLoad = FALSE])

\* The 500 ms timer of startAnimations' catch runs.
FallbackTimeoutFires ==
  /\ splash # << >>
  /\ splash[1].fallbackTimeout = "pending"
  /\ SplashStep(scheduleCompletion([Handling(splash[1], "fallbackTimeout")
                                     EXCEPT !.fallbackTimeout = "fired"]))

\* The callback given to start() runs, the animation finished or
\* interrupted: both ways the callbacks go on alike.
AnimationCallback ==
  /\ splash # << >>
  /\ splash[1].animation # "none"
  /\ LET s == [Handling(splash[1], "animation") EXCEPT !.animation = "none"]
     IN SplashStep(
          CASE splash[1].animation = "logo" ->
                 [s EXCEPT !.titleTimeout = "pending", !.animationTimeoutRef = "title"]
            [] splash[1].animation = "fadeOut" -> completeTransition(s, "fadeOut")
            [] OTHER -> scheduleCompletion(s))

\* The title delay timer runs: the title fade-in starts, or Animated throws
\* and the catch schedules the completion.
TitleTimeoutFires(throws) ==
  /\ splash # << >>
  /\ splash[1].titleTimeout = "pending"
  /\ LET s == [Handling(splash[1], "titleTimeout") EXCEPT !.titleTimeout = "fired"]
     IN SplashStep(IF throws THEN scheduleCompletion(s)
                   ELSE [s EXCEPT !.animation = "title"])

\* The timer made by scheduleCompletion runs fadeOutAndComplete.
CompletionTimeoutFires(throws) ==
  /\ splash # << >>
  /\ splash[1].completionTimeout = "pending"
  /\ SplashStep(fadeOutAndComplete([Handling(splash[1], "completionTimeout")
                                      EXCEPT !.completionTimeout = "fired"],
                                   throws))

\* handleAppStateChange(nextAppState), while the listener is subscribed.
handleAppStateChange(nextAppState) ==
  /\ splash # << >>
  /\ splash[1].phase = "mounted"
  /\ nextAppState # splash[1].appState
  /\ LET s == [Handling(splash[1], "handleAppStateChange") EXCEPT !.appState = nextAppState]
     IN SplashStep(
          IF splash[1].appState = "background" /\ nextAppState = "active"
             /\ ~splash[1].isInitialLoad
          THEN completeTransition(s, "handleAppStateChange")
          ELSE IF nextAppState = "background"
               THEN [s EXCEPT !.isInitialLoad = FALSE]
               ELSE s)

(* ----------------------------- specification ---------------------------- *)
Init ==
  /\ state = initialState
  /\ priceCache = [s \in MetalSymbols |-> << >>]
  /\ historicalCache = [key \in MetalSymbols \X Timeframes |-> << >>]
  /\ refresh = [k \in 1..MaxRefresh |-> [pc |-> "idle", results |-> NoResults]]
  /\ hist = [h \in 1..MaxHist |-> IdleHist]
  /\ resolved = << >>
  /\ failures = 0
  /\ lastLookup = << >>
  /\ everSucceeded = {}
  /\ provider = Unmounted
  /\ dispatched = << >>
  /\ splash = << >>

Next ==
  \/ \E k \in 1..MaxRefresh : refreshPrices(k)
  \/ \E k \in 1..MaxRefresh, i \in MetalIdx : QuoteSucceeds(k, i)
  \/ \E k \in 1..MaxRefresh, i \in MetalIdx, thrown \in Thrown : QuoteFails(k, i, thrown)
  \/ \E h \in 1..MaxHist, id \in HistoryIds, tf \in HistoryWindows :
        fetchHistoricalData(h, id, tf)
  \/ \E h \in 1..MaxHist : HistorySucceeds(h)
  \/ \E h \in 1..MaxHist : HistoryFails(h)
  \/ \E id \in LookupIds : Lookup(id)
  \/ Render

Spec == Init /\ [][Next]_vars

\* The refresh protocol alone: refreshPrices calls and the price source
\* answering or failing.
NextRefresh ==
  \/ \E k \in 1..MaxRefresh : refreshPrices(k)
  \/ \E k \in 1..MaxRefresh, i \in MetalIdx : QuoteSucceeds(k, i)
  \/ \E k \in 1..MaxRefresh, i \in MetalIdx, thrown \in Thrown : QuoteFails(k, i, thrown)

SpecRefresh == Init /\ [][NextRefresh]_vars

\* History on demand: fetchHistoricalData calls and the price source
\* answering or failing them in any order, beside refreshPrices calls whose
\* quote requests are answered in request order.
NextHistory ==
  \/ \E k \in 1..MaxRefresh : refreshPrices(k)
  \/ \E k \in 1..MaxRefresh, i \in MetalIdx : QuoteSucceedsInOrder(k, i)
  \/ \E h \in 1..MaxHist, id \in HistoryIds, tf \in HistoryWindows :
        fetchHistoricalData(h, id, tf)
  \/ \E h \in 1..MaxHist : HistorySucceeds(h)
  \/ \E h \in 1..MaxHist : HistoryFails(h)

SpecHistory == Init /\ [][NextHistory]_vars

\* Lookups beside refreshPrices calls: quote requests answered in request
\* order or failing.
NextLookup ==
  \/ \E k \in 1..MaxRefresh : refreshPrices(k)
  \/ \E k \in 1..MaxRefresh, i \in MetalIdx : QuoteSucceedsInOrder(k, i)
  \/ \E k \in 1..MaxRefresh, i \in MetalIdx, thrown \in Thrown : QuoteFails(k, i, thrown)
  \/ \E id \in LookupIds : Lookup(id)

SpecLookup == Init /\ [][NextLookup]_vars

\* The splash screen from mount to unmount and after: its timers, its
\* animation callbacks and app-state events, in any order.
NextSplash ==
  \/ \E isReduceMotionEnabled \in BOOLEAN, throws \in BOOLEAN :
        Mount(isReduceMotionEnabled, throws)
  \/ Unmount
  \/ MaxTimeoutFires
  \/ InitialLoadTimeoutFires
  \/ FallbackTimeoutFires
  \/ AnimationCallback
  \/ \E throws \in BOOLEAN : TitleTimeoutFires(throws)
  \/ \E throws \in BOOLEAN : CompletionTimeoutFires(throws)
  \/ \E nextAppState \in AppStateStatuses : handleAppStateChange(nextAppState)

SpecSplash == Init /\ [][NextSplash]_vars

\* Overlapping refreshPrices calls whose quote requests the price source
\* answers in any order, none failing.
NextOverlap ==
  \/ \E k \in 1..MaxRefresh : refreshPrices(k)
  \/ \E k \in 1..MaxRefresh, i \in MetalIdx : QuoteSucceeds(k, i)

SpecOverlap == Init /\ [][NextOverlap]_vars

\* The quote cache at work: refreshPrices calls, each asking getMetalPrice
\* for the four symbols, and the price source answering in request order or
\* failing.
NextQuotes ==
  \/ \E k \in 1..MaxRefresh : refreshPrices(k)
  \/ \E k \in 1..MaxRefresh, i \in MetalIdx : QuoteSucceedsInOrder(k, i)
  \/ \E k \in 1..MaxRefresh, i \in MetalIdx, thrown \in Thrown : QuoteFails(k, i, thrown)

SpecQuotes == Init /\ [][NextQuotes]_vars

\* The price source settles a quote request that waits for it: the 800 ms
\* timer of getMetalPrice fires, or the request fails.
Settles ==
  \E k \in 1..MaxRefresh, i \in MetalIdx :
     QuoteSucceedsInOrder(k, i) \/ \E thrown \in Thrown : QuoteFails(k, i, thrown)

\* The quote cache at work with a price source that leaves no request
\* waiting for ever: a timer that was set fires.
SpecSettling == Init /\ [][NextQuotes]_vars /\ WF_vars(Settles)

\* The series of one item over every window: fetchHistoricalData calls and
\* the price source answering them, beside refreshPrices calls answered in
\* request order.
NextSeries ==
  \/ \E k \in 1..MaxRefresh : refreshPrices(k)
  \/ \E k \in 1..MaxRefresh, i \in MetalIdx : QuoteSucceedsInOrder(k, i)
  \/ \E h \in 1..MaxHist, id \in SeriesIds, tf \in SeriesWindows :
        fetchHistoricalData(h, id, tf)
  \/ \E h \in 1..MaxHist : HistorySucceeds(h)

SpecSeries == Init /\ [][NextSeries]_vars

\* The provider's life: its renders and effect, refreshPrices calls by the
\* screens, and the price source answering in request order or failing.
NextMount ==
  \/ Render
  \/ \E k \in 1..MaxRefresh : CallerRefresh(k)
  \/ \E k \in 1..MaxRefresh, i \in MetalIdx : QuoteSucceedsInOrder(k, i)
  \/ \E k \in 1..MaxRefresh, i \in MetalIdx, thrown \in Thrown : QuoteFails(k, i, thrown)

SpecMount == Init /\ [][NextMount]_vars

\* The reducer on its own: any store state, any item-level action.
InitReducer ==
  /\ state \in StoreStates
  /\ priceCache = [s \in MetalSymbols |-> << >>]
  /\ historicalCache = [key \in MetalSymbols \X Timeframes |-> << >>]
  /\ refresh = [k \in 1..MaxRefresh |-> [pc |-> "idle", results |-> NoResults]]
  /\ hist = [h \in 1..MaxHist |-> IdleHist]
  /\ resolved = << >>
  /\ failures = 0
  /\ lastLookup = << >>
  /\ everSucceeded = {}
  /\ provider = Unmounted
  /\ dispatched = << >>
  /\ splash = << >>

NextReducer == \E action \in DispatchedActions : Dispatch(action)

SpecReducer == InitReducer /\ [][NextReducer]_vars

(* ================================ claims ================================ *)
\* Vocabulary of the claims.
Item(st, id) == st.metals[CHOOSE i \in MetalIdx : st.metals[i].id = id]

Tracked(id) == \E i \in MetalIdx : DEFAULT_METALS[i].id = id

\* The quote, error and loading fields of every item.
QuoteFields(st) ==
  [i \in MetalIdx |-> <<st.metals[i].price, st.metals[i].error, st.metals[i].loading>>]

ResultSucceeded(r) == r.status = "fulfilled" /\ r.success

\* The price source failed for this item with an Error carrying a message.
ResultFailedWithMessage(r) == r.status = "fulfilled" /\ ~r.success

ResultFailed(r) == r.status = "rejected" \/ ResultFailedWithMessage(r)

\* C1: when a refreshPrices call resolves, every item has loading = false and
\* the store has refreshing = false, whatever the price source did per item.
C1_ResolvedNothingLoading ==
  resolved # << >> =>
     /\ ~state.refreshing
     /\ \A i \in MetalIdx : ~state.metals[i].loading

\* C2: the quote, error and loading fields of the items change only in the
\* step in which a refreshPrices call resolves, and after that step
\* refreshing is false and every item reflects that call's result: no
\* snapshot shows part of a batch.
C2_AtomicBatchMerge ==
  [][ QuoteFields(state') # QuoteFields(state) =>
        /\ resolved' # << >>
        /\ ~state'.refreshing
        /\ \A i \in MetalIdx :
             LET r == resolved'[1].results[i]
                 old == state.metals[i]
                 new == state'.metals[i]
             IN IF ResultSucceeded(r)
                THEN new.price = r.price /\ new.error = << >> /\ ~new.loading
                ELSE IF ResultFailedWithMessage(r) /\ r.error[1] # ""
                THEN new.error = r.error /\ new.price = old.price /\ ~new.loading
                ELSE new = old ]_vars

\* C2's case: a call has just resolved with a mixed batch, a quote for gold
\* and an error for palladium, both visible in the same snapshot.
C2_Witness ==
  /\ resolved # << >>
  /\ Item(state, "gold").price # << >>
  /\ Item(state, "palladium").error # << >>
  /\ ~state.refreshing

\* C3: if in one refreshPrices call the price source fails for exactly one
\* symbol S with message m and succeeds for all others, then when the call
\* resolves item(S).error = m (and item(S).quote is absent if S never
\* succeeded), and every other item has its quote set and no error.
C3_PartialFailureIsolation ==
  resolved # << >> =>
     \A s \in MetalIdx :
        LET results == resolved[1].results IN
        ( /\ ResultFailedWithMessage(results[s])
          /\ \A i \in MetalIdx \ {s} : ResultSucceeded(results[i]) )
        => /\ state.metals[s].error = results[s].error
           /\ state.metals[s].id \notin everSucceeded => state.metals[s].price = << >>
           /\ \A i \in MetalIdx \ {s} :
                state.metals[i].price # << >> /\ state.metals[i].error = << >>

\* C7: refreshPrices never rejects, and every failure of the price source
\* shows as the failing item's error field once the call has resolved.
C7_FailuresFoldedIntoError ==
  /\ \A k \in 1..MaxRefresh : refresh[k].pc # "rejected"
  /\ resolved # << >> =>
        \A i \in MetalIdx :
           ResultFailed(resolved[1].results[i]) => state.metals[i].error # << >>

\* C10: a failure merged for an item sets its error, clears loading and
\* leaves its quote exactly as it was; so an item that has once succeeded
\* exposes a quote in every later state.
C10_StaleQuoteRetained ==
  [][ /\ \A i \in MetalIdx :
           state'.metals[i].id \in everSucceeded' => state'.metals[i].price # << >>
      /\ resolved' # << >> =>
           \A i \in MetalIdx :
              LET r == resolved'[1].results[i] IN
              (ResultFailedWithMessage(r) /\ r.error[1] # "")
                 => /\ state'.metals[i].error = r.error
                    /\ ~state'.metals[i].loading
                    /\ state'.metals[i].price = state.metals[i].price ]_vars

\* C10's case: palladium succeeded in one call and failed in an overlapping
\* call merged later: it shows the error beside the earlier quote.
C10_Witness ==
  /\ resolved # << >>
  /\ ResultFailedWithMessage(resolved[1].results[4])
  /\ "palladium" \in everSucceeded
  /\ Item(state, "palladium").error = <<"timeout">>
  /\ Item(state, "palladium").price # << >>

\* A fetchHistoricalData call is invoked in this step as invocation h.
Invoked(h) == hist[h].pc = "idle" /\ hist'[h].pc # "idle"

SamePair(c, d) == c.metalId = d.metalId /\ c.timeframe = d.timeframe

\* C4: once historicalData[timeframe] of an item is populated, no later step
\* changes or removes it.
C4_WriteOnceHistory ==
  [][ \A i \in MetalIdx : \A tf \in DOMAIN state.metals[i].historicalData :
         /\ tf \in DOMAIN state'.metals[i].historicalData
         /\ state'.metals[i].historicalData[tf] = state.metals[i].historicalData[tf] ]_vars

\* C5: a fetchHistoricalData call for a pair (id, timeframe), invoked after an
\* earlier call for the same pair has fetched the series upstream and
\* resolved, returns at once: it reaches neither the service nor the price
\* source, so the upstream call of the first stays the only one, and the
\* store (the series included) is unchanged.
C5_SecondCallNoOp ==
  [][ \A h \in 1..MaxHist :
        ( /\ Invoked(h)
          /\ \E h1 \in 1..MaxHist :
                /\ hist[h1].pc = "fulfilled"
                /\ hist[h1].via = "upstream"
                /\ SamePair(hist[h1], hist'[h]) )
        => /\ hist'[h].pc = "fulfilled"
           /\ hist'[h].via = "guard"
           /\ state' = state
           /\ historicalCache' = historicalCache ]_vars

\* C5's case: two calls for (gold, Week) in sequence, the first answered
\* upstream, the second returned by the guard, and the series stored.
C5_Witness ==
  /\ hist[1].pc = "fulfilled" /\ hist[1].via = "upstream"
  /\ hist[2].pc = "fulfilled" /\ hist[2].via = "guard"
  /\ SamePair(hist[1], hist[2])
  /\ hist[1].metalId = "gold" /\ hist[1].timeframe = "Week"
  /\ "Week" \in DOMAIN Item(state, "gold").historicalData

\* C6: a fetchHistoricalData call for a tracked item whose quote is absent
\* makes no upstream call and changes neither the store nor the caches.
C6_NoQuoteNoFetch ==
  [][ \A h \in 1..MaxHist :
        ( /\ Invoked(h)
          /\ Tracked(hist'[h].metalId)
          /\ Item(state, hist'[h].metalId).price = << >> )
        => /\ hist'[h].pc = "fulfilled"
           /\ hist'[h].via = "guard"
           /\ state' = state
           /\ historicalCache' = historicalCache
           /\ priceCache' = priceCache ]_vars

\* C6's case: fetchHistoricalData("gold", ...) has returned while gold has
\* no quote yet and a refresh is on its way.
C6_Witness ==
  \E h \in 1..MaxHist :
     /\ hist[h].pc = "fulfilled" /\ hist[h].via = "guard"
     /\ hist[h].metalId = "gold"
     /\ Item(state, "gold").price = << >>
     /\ Item(state, "gold").historicalData = << >>
     /\ state.refreshing

\* C8: fetchHistoricalData never rejects; when its upstream call fails the
\* promise fulfils and neither the store nor the caches change, so the
\* timeframe stays absent; and a later call for the same pair, made while
\* the timeframe is still absent, goes upstream again.
C8_HistoryFailureContained ==
  [][ \A h \in 1..MaxHist :
        /\ hist'[h].pc # "rejected"
        /\ (hist[h].pc = "waiting" /\ hist'[h].via = "failed")
              => /\ hist'[h].pc = "fulfilled"
                 /\ state' = state
                 /\ historicalCache' = historicalCache
                 /\ priceCache' = priceCache
        /\ ( /\ Invoked(h)
             /\ \E h1 \in 1..MaxHist : hist[h1].via = "failed" /\ SamePair(hist[h1], hist'[h])
             /\ hist'[h].timeframe \notin DOMAIN Item(state, hist'[h].metalId).historicalData )
              => hist'[h].pc = "waiting" /\ hist'[h].via = "upstream" ]_vars

\* C8's case: the first call for (gold, Week) failed upstream, the timeframe
\* is absent, and the second call for the pair is waiting for the price source.
C8_Witness ==
  /\ hist[1].pc = "fulfilled" /\ hist[1].via = "failed"
  /\ hist[2].pc = "waiting" /\ hist[2].via = "upstream"
  /\ SamePair(hist[1], hist[2])
  /\ hist[1].metalId = "gold" /\ hist[1].timeframe = "Week"
  /\ "Week" \notin DOMAIN Item(state, "gold").historicalData

\* C9: getMetalById(id) returns the current item when id is tracked and
\* undefined otherwise, and changes neither the store nor the caches.
C9_LookupPureRead ==
  [][ lastLookup' # << >> =>
        LET id == lastLookup'[1].id
            result == lastLookup'[1].result
        IN /\ Tracked(id) => result = <<Item(state, id)>>
           /\ ~Tracked(id) => result = << >>
           /\ state' = state
           /\ priceCache' = priceCache
           /\ historicalCache' = historicalCache
           /\ refresh' = refresh ]_vars

\* C9's cases: a lookup of an unknown id has returned undefined ...
C9_Witness ==
  /\ lastLookup # << >>
  /\ lastLookup[1].id = "nonexistent"
  /\ lastLookup[1].result = << >>
  /\ Item(state, "palladium").price # << >>

\* ... and a lookup of palladium has returned the item with its quote.
C9_WitnessTracked ==
  /\ lastLookup # << >>
  /\ lastLookup[1].id = "palladium"
  /\ lastLookup[1].result # << >>
  /\ lastLookup[1].result[1].symbol = "XPD"
  /\ lastLookup[1].result[1].price # << >>

\* C11: in every reachable store state no item has loading = true together
\* with an error present.
C11_LoadingExcludesError ==
  \A i \in MetalIdx : ~(state.metals[i].loading /\ state.metals[i].error # << >>)

\* C11's case: palladium, loading since the store was created, has had its
\* first failure merged while gold got its first quote: the error is shown
\* and loading is off.
C11_Witness ==
  /\ Item(state, "palladium").error = <<"timeout">>
  /\ Item(state, "palladium").price = << >>
  /\ ~Item(state, "palladium").loading
  /\ Item(state, "gold").price # << >>

\* A refreshPrices call is outstanding: started and not yet resolved.
Outstanding(k) == refresh[k].pc = "waiting"

\* C12: refreshing is true in every state in which at least one
\* refreshPrices call is outstanding, overlapping calls included.
C12_RefreshingWhileOutstanding ==
  (\E k \in 1..MaxRefresh : Outstanding(k)) => state.refreshing

\* A quote fetch for item i is in flight: some outstanding refreshPrices call
\* still waits for the price source's answer for it.
InFlight(i) ==
  \E k \in 1..MaxRefresh : Outstanding(k) /\ refresh[k].results[i].status = "pending"

\* C13: an item's loading flag is true for as long as a quote fetch for it is
\* in flight, in the first refreshPrices call and in every later one, and
\* false once the fetch result has been merged.
C13_LoadingWhileInFlight ==
  /\ \A i \in MetalIdx : InFlight(i) => state.metals[i].loading
  /\ resolved # << >> =>
        \A i \in MetalIdx :
           (ResultSucceeded(resolved[1].results[i])
              \/ (ResultFailedWithMessage(resolved[1].results[i])
                    /\ resolved[1].results[i].error[1] # ""))
           => ~state.metals[i].loading

\* refreshPrices call k is invoked in this step and goes upstream for item i.
Dispatched(k, i) ==
  /\ refresh[k].pc = "idle"
  /\ refresh'[k].pc = "waiting"
  /\ refresh'[k].results[i].status = "pending"

\* C14: when refreshPrices dispatches a new fetch for an item, the item's
\* previous error is cleared in that step, before the fetch completes: the
\* item's error is absent once the fetch is in flight.
C14_ErrorClearedAtDispatch ==
  [][ \A k \in 1..MaxRefresh, i \in MetalIdx :
         Dispatched(k, i) => state'.metals[i].error = << >> ]_vars

\* C15: SET_PRICE_SUCCESS for item i with quote q leaves item i with
\* price = q, loading = false and no error, and lastUpdated present,
\* whatever i's quote and error were before and whatever errors the other
\* items carry; the other items are left as they were.
C15_PriceSuccessEffect ==
  (dispatched # << >> /\ dispatched[1].action.type = "SET_PRICE_SUCCESS") =>
     LET p == dispatched[1].action.payload
         before == dispatched[1].before
     IN /\ Item(state, p.metalId).price = <<p.price>>
        /\ ~Item(state, p.metalId).loading
        /\ Item(state, p.metalId).error = << >>
        /\ state.lastUpdated # << >>
        /\ \A j \in MetalIdx :
             before.metals[j].id # p.metalId => state.metals[j] = before.metals[j]

\* C15's case: palladium carried an error beside an older quote, gold
\* carried an error too, and SET_PRICE_SUCCESS for palladium has replaced
\* the quote and cleared palladium's error only.
C15_Witness ==
  /\ dispatched # << >>
  /\ dispatched[1].action.type = "SET_PRICE_SUCCESS"
  /\ dispatched[1].action.payload.metalId = "palladium"
  /\ Item(dispatched[1].before, "palladium").error = <<"timeout">>
  /\ Item(dispatched[1].before, "palladium").price # << >>
  /\ Item(dispatched[1].before, "palladium").price # <<dispatched[1].action.payload.price>>
  /\ Item(state, "palladium").price = <<dispatched[1].action.payload.price>>
  /\ Item(state, "palladium").error = << >>
  /\ Item(state, "gold").error = <<"timeout">>

\* C18: the provider itself starts refreshPrices exactly once, at its first
\* render: however many store changes and re-renders follow, its effect
\* does not run again, so every further call is a caller's.
C18_EffectRunsOnce ==
  /\ provider.effectRuns <= 1
  /\ provider.rendered # << >> => provider.effectRuns = 1
  /\ provider.rendered = << >> => \A k \in 1..MaxRefresh : refresh[k].pc = "idle"

\* C18's case: the provider has rendered again after several store changes,
\* the last of them the merge of a second refreshPrices call made by a
\* screen, and is up to date with the store.
C18_Witness ==
  /\ provider.effectRuns = 1
  /\ provider.renders >= 3
  /\ provider.rendered = <<state>>
  /\ \A k \in 1..MaxRefresh : refresh[k].pc = "fulfilled"
  /\ state.lastUpdated # << >>

\* The price the fixtures give for each item's own symbol, in hundredths.
FixturePrice(id) ==
  CASE id = "gold"      -> 585075
    [] id = "silver"    -> 7245
    [] id = "platinum"  -> 265034
    [] id = "palladium" -> 342089

OwnSymbol(id) ==
  CASE id = "gold"      -> "XAU"
    [] id = "silver"    -> "XAG"
    [] id = "platinum"  -> "XPT"
    [] id = "palladium" -> "XPD"

\* C19: when a refreshPrices call in which the price source succeeded for
\* all four symbols resolves, lastUpdated is set and every item has
\* loading = false and holds the quote returned for its own symbol.
C19_AllSucceedOwnQuotes ==
  (resolved # << >> /\ \A i \in MetalIdx : ResultSucceeded(resolved[1].results[i])) =>
     /\ state.lastUpdated # << >>
     /\ \A i \in MetalIdx :
          LET item == state.metals[i] IN
          /\ ~item.loading
          /\ item.price = resolved[1].results[i].price
          /\ item.price # << >>
          /\ item.price[1].metal = OwnSymbol(item.id)
          /\ item.price[1].price = FixturePrice(item.id)

\* C19's case: the first refreshPrices call has just resolved with four
\* quotes fetched from the price source and now cached, no other call made.
C19_Witness ==
  /\ resolved # << >>
  /\ resolved[1].call = 1
  /\ \A i \in MetalIdx : ResultSucceeded(resolved[1].results[i])
  /\ \A i \in MetalIdx : priceCache[DEFAULT_METALS[i].symbol] = state.metals[i].price
  /\ Item(state, "silver").price[1].price = 7245
  /\ refresh[2].pc = "idle"

\* refreshPrices call k is invoked in this step: it calls getMetalPrice once
\* for each metal.
Started(k) == refresh[k].pc = "idle" /\ refresh'[k].pc # "idle"

\* What the getMetalPrice calls of call k have returned or thrown after this
\* step; "pending" marks a call that waits for the price source.
ResultsAfter(k) ==
  IF resolved' # << >> /\ resolved'[1].call = k
  THEN resolved'[1].results ELSE refresh'[k].results

\* The price source answers the getMetalPrice call of call k for item i in
\* this step.
Answered(k, i) ==
  /\ refresh[k].pc = "waiting"
  /\ refresh[k].results[i].status = "pending"
  /\ ResultsAfter(k)[i].status # "pending"

\* C16: getMetalPrice(symbol) calls the price source if and only if no quote
\* is cached for the symbol when the call starts; on a hit it returns the
\* cached quote and leaves the cache alone; after a successful miss the
\* cache holds the returned quote under that symbol, and the entries of the
\* other symbols are as they were and hold none of it.
C16_CacheMissIffUpstream ==
  [][ \A k \in 1..MaxRefresh, i \in MetalIdx :
        LET s == DEFAULT_METALS[i].symbol
            r == ResultsAfter(k)[i]
        IN /\ Started(k) =>
                /\ (r.status = "pending") <=> (priceCache[s] = << >>)
                /\ priceCache[s] # << >> =>
                     /\ ResultSucceeded(r)
                     /\ r.price = priceCache[s]
                     /\ priceCache' = priceCache
           /\ (Answered(k, i) /\ ResultSucceeded(r)) =>
                /\ priceCache'[s] = r.price
                /\ \A s2 \in MetalSymbols \ {s} :
                     priceCache'[s2] = priceCache[s2] /\ priceCache'[s2] # r.price ]_vars

\* C16's case: a second refreshPrices call has found gold's quote in the
\* cache and gone to the price source for palladium, whose first fetch
\* failed and left nothing cached.
C16_Witness ==
  /\ refresh[1].pc = "fulfilled"
  /\ refresh[2].pc = "waiting"
  /\ ResultSucceeded(refresh[2].results[1])
  /\ refresh[2].results[1].price = priceCache["XAU"]
  /\ priceCache["XAU"] # << >>
  /\ refresh[2].results[4].status = "pending"
  /\ priceCache["XPD"] = << >>

\* The price source has failed for item i's symbol at least once.
FailedBefore(i) == failures > 0 /\ FailingSymbols = {DEFAULT_METALS[i].symbol}

\* C17: when the price source fails a quote call the cache is left exactly
\* as it was, the caller gets the error (refreshPrices records its message),
\* and the next getMetalPrice for the symbol, finding nothing cached,
\* calls the price source again.
C17_FailureNotCached ==
  [][ \A k \in 1..MaxRefresh, i \in MetalIdx :
        LET s == DEFAULT_METALS[i].symbol
            r == ResultsAfter(k)[i]
        IN /\ (Answered(k, i) /\ ~ResultSucceeded(r)) =>
                /\ priceCache' = priceCache
                /\ r.status = "fulfilled"
                /\ \E thrown \in Thrown : r.error = <<thrown.message>>
           /\ (Started(k) /\ FailedBefore(i) /\ priceCache[s] = << >>) =>
                r.status = "pending" ]_vars

\* C17's case: palladium's fetch failed in the first call, which merged the
\* error; nothing is cached for XPD and the second call is waiting for the
\* price source to answer for palladium again.
C17_Witness ==
  /\ refresh[1].pc = "fulfilled"
  /\ failures = 1
  /\ Item(state, "palladium").error = <<"timeout">>
  /\ priceCache["XPD"] = << >>
  /\ refresh[2].pc = "waiting"
  /\ refresh[2].results[4].status = "pending"
  /\ \A i \in 1..3 : ResultSucceeded(refresh[2].results[i])

\* The number of points the spec gives for each window.
ExpectedLength(timeframe) ==
  CASE timeframe = "24h"   -> 24
    [] timeframe = "Week"  -> 7
    [] timeframe = "Month" -> 30

\* The points carry dates that never decrease along the array.
Ordered(points) ==
  \A a \in 1..(Len(points) - 1) :
     /\ points[a].date.at = points[a + 1].date.at
     /\ points[a].date.offset <= points[a + 1].date.offset

\* C20: a fetchHistoricalData call for an item with a quote and no series
\* for the window goes upstream, once; when the price source answers, the
\* item holds a series for the window with 24 points for "24h", 7 for
\* "Week" and 30 for "Month", in non-decreasing date order.
C20_SeriesLengthAndOrder ==
  [][ \A h \in 1..MaxHist :
        /\ ( /\ Invoked(h)
             /\ Tracked(hist'[h].metalId)
             /\ Item(state, hist'[h].metalId).price # << >>
             /\ hist'[h].timeframe \notin DOMAIN Item(state, hist'[h].metalId).historicalData )
           => /\ hist'[h].pc = "waiting"
              /\ hist'[h].via = "upstream"
              /\ state' = state
        /\ (hist[h].pc = "waiting" /\ hist'[h].pc = "fulfilled" /\ hist'[h].via = "upstream")
           => LET tf == hist[h].timeframe
                  stored == Item(state', hist[h].metalId).historicalData
                  points == SeriesPoints(stored[tf])
              IN /\ tf \in DOMAIN stored
                 /\ Len(points) = ExpectedLength(tf)
                 /\ Ordered(points)
                 /\ historicalCache'[CacheKey(hist[h].symbol, tf)] = <<stored[tf]>> ]_vars

\* C20's case: gold had a quote and no series; one call fetched "Month" and
\* another "24h" upstream, and gold now holds 30 and 24 points for them.
C20_Witness ==
  /\ hist[1].pc = "fulfilled" /\ hist[1].via = "upstream"
  /\ hist[1].metalId = "gold" /\ hist[1].timeframe = "Month"
  /\ hist[2].pc = "fulfilled" /\ hist[2].via = "upstream"
  /\ hist[2].metalId = "gold" /\ hist[2].timeframe = "24h"
  /\ DOMAIN Item(state, "gold").historicalData = {"Month", "24h"}
  /\ Len(SeriesPoints(Item(state, "gold").historicalData["Month"])) = 30
  /\ Len(SeriesPoints(Item(state, "gold").historicalData["24h"])) = 24

\* refreshPrices call k resolves in this step.
Resolves(k) == resolved' # << >> /\ resolved'[1].call = k

\* C21: a refreshPrices call merges nothing before every one of its
\* per-item attempts has settled, and turns refreshing off only in that
\* merge: a step in which no call resolves changes no item's quote, error
\* or loading, nor lastUpdated, and does not turn refreshing off; so while a
\* lone call still waits for one answer the items are as created and
\* refreshing stays true.
C21_JoinOnAllSettled ==
  [][ /\ \A k \in 1..MaxRefresh :
           Resolves(k) =>
              /\ \A i \in MetalIdx : resolved'[1].results[i].status # "pending"
              /\ ~state'.refreshing
      /\ resolved' = << >> =>
           /\ QuoteFields(state') = QuoteFields(state)
           /\ state'.lastUpdated = state.lastUpdated
           /\ state.refreshing => state'.refreshing
      /\ (refresh'[1].pc = "waiting" /\ refresh'[2].pc = "idle") =>
           /\ state'.refreshing
           /\ QuoteFields(state') = QuoteFields(initialState) ]_vars

\* C21's case: the only call has its answers for silver, platinum and
\* palladium (a failure) and still waits for gold: nothing is merged and
\* refreshing is true.
C21_Witness ==
  /\ refresh[1].pc = "waiting"
  /\ refresh[2].pc = "idle"
  /\ refresh[1].results[1].status = "pending"
  /\ ResultSucceeded(refresh[1].results[2])
  /\ ResultSucceeded(refresh[1].results[3])
  /\ ResultFailedWithMessage(refresh[1].results[4])
  /\ state.refreshing
  /\ QuoteFields(state) = QuoteFields(initialState)

\* What one item shows after the first merge, from its own outcome alone.
MergedFields(r) ==
  IF ResultSucceeded(r) THEN <<r.price, << >>, FALSE>>
  ELSE IF ResultFailedWithMessage(r) /\ r.error[1] # "" THEN << << >>, r.error, FALSE>>
  ELSE << << >>, << >>, TRUE>>

\* C22: within a single refreshPrices call the store after the batch merge
\* is fixed by the per-item outcomes, whatever order the answers arrived
\* in: each item shows what its own outcome gives and refreshing is false.
C22_MergeOrderIndependent ==
  (resolved # << >> /\ resolved[1].call = 1 /\ refresh[2].pc = "idle") =>
     /\ QuoteFields(state) = [i \in MetalIdx |-> MergedFields(resolved[1].results[i])]
     /\ ~state.refreshing

\* C22's case: the lone call has resolved with quotes for gold, silver and
\* platinum and a failure for palladium, which the price source may have
\* answered first, last or in between.
C22_Witness ==
  /\ resolved # << >>
  /\ resolved[1].call = 1
  /\ refresh[2].pc = "idle"
  /\ \A i \in 1..3 : ResultSucceeded(resolved[1].results[i])
  /\ resolved[1].results[4].error = <<"timeout">>
  /\ Item(state, "palladium").error = <<"timeout">>
  /\ Item(state, "platinum").price # << >>

\* C23: once two overlapping refreshPrices calls have both resolved, every
\* item shows what the call merged last produced for it: that call's quote
\* and no error where it got a quote, that call's error where it failed.
C23_LastMergeWins ==
  (resolved # << >> /\ \A k \in 1..MaxRefresh : refresh[k].pc = "fulfilled") =>
     \A i \in MetalIdx :
        LET r == resolved[1].results[i] IN
        /\ ResultSucceeded(r) =>
             state.metals[i].price = r.price /\ state.metals[i].error = << >>
        /\ ResultFailedWithMessage(r) => state.metals[i].error = r.error

\* The identity of the tracked items, in order.
Identities(st) ==
  [i \in DOMAIN st.metals |-> <<st.metals[i].id, st.metals[i].symbol, st.metals[i].name>>]

\* The fields of an item other than its series.
WithoutSeries(item) == <<item.id, item.name, item.symbol, item.loading, item.price, item.error>>

\* C24: every dispatched action keeps the four items, their ids, symbols
\* and order; SET_PRICE_SUCCESS, SET_ERROR and SET_HISTORICAL_DATA change
\* only the item whose id matches, SET_HISTORICAL_DATA only the addressed
\* window of that item's series, and SET_REFRESHING only refreshing.
C24_ReducerFrame ==
  dispatched # << >> =>
     LET a == dispatched[1].action
         before == dispatched[1].before
     IN /\ Identities(state) = Identities(before)
        /\ Identities(state) = [i \in MetalIdx |->
              <<DEFAULT_METALS[i].id, DEFAULT_METALS[i].symbol, DEFAULT_METALS[i].name>>]
        /\ a.type \in {"SET_PRICE_SUCCESS", "SET_ERROR", "SET_HISTORICAL_DATA"} =>
              /\ \A j \in MetalIdx :
                    before.metals[j].id # a.payload.metalId =>
                       state.metals[j] = before.metals[j]
              /\ state.refreshing = before.refreshing
        /\ a.type \in {"SET_ERROR", "SET_HISTORICAL_DATA"} =>
              state.lastUpdated = before.lastUpdated
        /\ a.type = "SET_HISTORICAL_DATA" =>
              LET old == Item(before, a.payload.metalId)
                  new == Item(state, a.payload.metalId)
              IN /\ WithoutSeries(new) = WithoutSeries(old)
                 /\ DOMAIN new.historicalData =
                       DOMAIN old.historicalData \cup {a.payload.timeframe}
                 /\ new.historicalData[a.payload.timeframe] = a.payload.data
                 /\ \A tf \in DOMAIN old.historicalData \ {a.payload.timeframe} :
                       new.historicalData[tf] = old.historicalData[tf]
        /\ a.type = "SET_REFRESHING" =>
              /\ state.metals = before.metals
              /\ state.lastUpdated = before.lastUpdated
              /\ state.refreshing = a.payload

\* C24's case: gold held a quote, an error and its Week series, palladium
\* an error; SET_HISTORICAL_DATA for gold's 24h window has added that window
\* beside the other.
C24_Witness ==
  /\ dispatched # << >>
  /\ dispatched[1].action.type = "SET_HISTORICAL_DATA"
  /\ dispatched[1].action.payload.timeframe = "24h"
  /\ DOMAIN Item(dispatched[1].before, "gold").historicalData = {"Week"}
  /\ Item(dispatched[1].before, "gold").error = <<"timeout">>
  /\ Item(dispatched[1].before, "palladium").error = <<"timeout">>
  /\ DOMAIN Item(state, "gold").historicalData = {"Week", "24h"}

\* C25: lastUpdated is absent as long as no quote has been merged, is
\* changed by SET_PRICE_SUCCESS only (errors, series and the refreshing
\* flag leave it as it is, so a batch of failures does too), and once
\* present is never absent again.
C25_LastUpdatedOnlyBySuccess ==
  [][ dispatched' # << >> =>
        LET a == dispatched'[1].action IN
        /\ state'.lastUpdated # state.lastUpdated => a.type = "SET_PRICE_SUCCESS"
        /\ a.type = "SET_PRICE_SUCCESS" => state'.lastUpdated # << >>
        /\ state.lastUpdated # << >> => state'.lastUpdated # << >>
        /\ state'.lastUpdated = << >> =>
              \A i \in MetalIdx : state'.metals[i].price = << >> ]_vars

\* C25's case: every item has failed, the last SET_ERROR of the batch being
\* palladium's, and lastUpdated is still absent.
C25_Witness ==
  /\ dispatched # << >>
  /\ dispatched[1].action.type = "SET_ERROR"
  /\ dispatched[1].action.payload.metalId = "palladium"
  /\ \A i \in MetalIdx : state.metals[i].error = <<"timeout">> /\ state.metals[i].price = << >>
  /\ Item(dispatched[1].before, "palladium").loading
  /\ state.lastUpdated = << >>

\* C26: the quote cache is not single-flight.  A getMetalPrice call that
\* starts while another call's fetch for the same symbol is in flight, and
\* nothing is cached yet, goes to the price source itself; and each fetch
\* that completes writes its own answer into the cache, over the answer of
\* a call that completed before it, so the cache ends with the answer of
\* the call that completed last.
C26_NotSingleFlight ==
  [][ \A k \in 1..MaxRefresh, i \in MetalIdx :
        LET s == DEFAULT_METALS[i].symbol
            r == ResultsAfter(k)[i]
        IN /\ ( /\ Started(k)
                /\ priceCache[s] = << >>
                /\ \E k2 \in 1..MaxRefresh \ {k} :
                      Outstanding(k2) /\ refresh[k2].results[i].status = "pending" )
              => /\ r.status = "pending"
                 /\ \A k2 \in 1..MaxRefresh \ {k} :
                       (Outstanding(k2) /\ refresh[k2].results[i].status = "pending")
                          => refresh'[k2].results[i].status = "pending"
           /\ (Answered(k, i) /\ ResultSucceeded(r)) =>
                 /\ r.price = <<MockQuote(s, Instant("quote", k))>>
                 /\ priceCache'[s] = r.price ]_vars

\* C26's case: both calls went upstream for gold and both were answered,
\* each with its own quote; the cache holds the first call's answer, the
\* second call's having been written before it.
C26_Witness ==
  /\ Outstanding(1) /\ Outstanding(2)
  /\ ResultSucceeded(refresh[1].results[1])
  /\ ResultSucceeded(refresh[2].results[1])
  /\ refresh[1].results[1].price # refresh[2].results[1].price
  /\ refresh[2].results[1].price = <<MockQuote("XAU", Instant("quote", 2))>>
  /\ priceCache["XAU"] = refresh[1].results[1].price

\* C27: whenever no refreshPrices call is outstanding, every item that
\* holds a quote holds exactly the quote the cache holds for its symbol.
C27_CacheStoreAgreeAtQuiescence ==
  (\A k \in 1..MaxRefresh : ~Outstanding(k)) =>
     \A i \in MetalIdx :
        state.metals[i].price # << >> =>
           state.metals[i].price = priceCache[DEFAULT_METALS[i].symbol]

\* The cache holds a quote for item i's symbol and no getMetalPrice call
\* for it waits for the price source.
CachedAndQuiet(i) ==
  /\ priceCache[DEFAULT_METALS[i].symbol] # << >>
  /\ \A k \in 1..MaxRefresh :
        ~(Outstanding(k) /\ refresh[k].results[i].status = "pending")

\* C28: once the cache holds a quote for a symbol and no fetch for it is in
\* flight, the cached quote stays as it is, a refreshPrices call that
\* starts gets the cached quote without an upstream call for the symbol,
\* the item's quote, being the cached one, is never changed again, and
\* every call that resolves still advances lastUpdated.
C28_CachedQuoteFrozen ==
  [][ \A i \in MetalIdx :
        LET s == DEFAULT_METALS[i].symbol
        IN CachedAndQuiet(i) =>
             /\ priceCache'[s] = priceCache[s]
             /\ \A k \in 1..MaxRefresh :
                   /\ Started(k) =>
                        ResultsAfter(k)[i] =
                           ItemSuccess(DEFAULT_METALS[i], priceCache[s][1])
                   /\ Resolves(k) =>
                        state'.lastUpdated = <<Instant("merge", k)>>
             /\ (state.metals[i].price = priceCache[s])
                   => state'.metals[i].price = state.metals[i].price ]_vars

\* C29: when the price source settles every quote request, a refreshPrices
\* call that waits for its requests eventually resolves; and whenever no
\* call is outstanding, refreshing is false.
C29_RefreshResolves ==
  /\ \A k \in 1..MaxRefresh :
        Outstanding(k) ~> (refresh[k].pc = "fulfilled")
  /\ []((\A k \in 1..MaxRefresh : ~Outstanding(k)) => ~state.refreshing)

\* C29's case: every call has resolved, the last of them after one of its
\* requests failed and another was answered, and refreshing is off.
C29_Witness ==
  /\ \A k \in 1..MaxRefresh : refresh[k].pc = "fulfilled"
  /\ resolved # << >>
  /\ resolved[1].call = MaxRefresh
  /\ \E i \in MetalIdx : ResultFailed(resolved[1].results[i])
  /\ \E i \in MetalIdx : ResultSucceeded(resolved[1].results[i])
                          /\ resolved[1].results[i].price
                                # <<MockQuote(DEFAULT_METALS[i].symbol, Instant("quote", 1))>>
  /\ ~state.refreshing

\* C30: onAnimationComplete is called at most once, from mount to unmount
\* and after, whatever the order of the timers, the animation callbacks and
\* the app-state events; and once completeTransition has run, neither the
\* maximum-display timer nor the scheduled completion timer, when it runs,
\* calls completeTransition or onAnimationComplete.
C30_CompletesAtMostOnce ==
  /\ [](splash # << >> => splash[1].completions <= 1)
  /\ [][ ( /\ splash # << >>
           /\ splash[1].hasCompleted
           /\ splash'[1].latest \in {"maxTimeout", "completionTimeout"} )
           => /\ splash'[1].invoker = "none"
              /\ splash'[1].completions = splash[1].completions ]_vars

\* C30's case: the screen is mounted, a return from the background has
\* completed the transition, and the completion timer, scheduled by an
\* animation callback that came later, has just run without calling
\* anything.
C30_Witness ==
  /\ splash # << >>
  /\ splash[1].phase = "mounted"
  /\ splash[1].hasCompleted
  /\ splash[1].completions = 1
  /\ splash[1].maxTimeout = "cleared"
  /\ splash[1].latest = "completionTimeout"
  /\ splash[1].invoker = "none"
  /\ splash[1].animation = "none"
====
